---- MODULE Spec2Model ----
(***************************************************************************)
(* download_file (gui/src/core/download.rs): the resumable transfer loop,  *)
(* its two control flags, the destination file, the progress sink and the  *)
(* HTTP server it talks to.  One action per step between two suspension    *)
(* points or two loads of a shared flag.                                   *)
(***************************************************************************)
EXTENDS Integers, Sequences, FiniteSets, TLC

(* ---------------------------------------------------------------------- *)
(* Bounds of the model                                                     *)
(* ---------------------------------------------------------------------- *)
\* size in bytes of the resource a range-honouring server serves
ResourceSize == 3
\* largest chunk the byte stream yields at once
MaxChunk == 2
\* cap on consecutive failed sends that the model counts
MaxFails == 2
\* length of the body a non-success response carries
ErrorBodyLen == 1

(* ---------------------------------------------------------------------- *)
(* Program constants                                                       *)
(* ---------------------------------------------------------------------- *)
\* Duration::from_millis(100) between two progress samples
SAMPLE_MS == 100
\* Duration::from_millis(100) of the sleep while paused
PAUSE_SLEEP_MS == 100
\* Duration::from_secs(2) before a retry, in milliseconds
RETRY_SLEEP_MS == 2000
\* let max_samples = 20
max_samples == 20

(* ---------------------------------------------------------------------- *)
(* Values                                                                  *)
(* ---------------------------------------------------------------------- *)
\* Option::None of content_length()
NoLen == -1
\* a GET without a Range header
NoRange == -1
\* no GET has been issued yet
NoRequest == -2
\* elapsed time since last_update seen when a chunk has been written
ElapsedChoices == {0, SAMPLE_MS, 2 * SAMPLE_MS}
Statuses == {"success", "range_not_satisfiable", "other_error"}

RECURSIVE SumSeq(_)
SumSeq(s) == IF s = <<>> THEN 0 ELSE Head(s) + SumSeq(Tail(s))

\* the bytes of the resource from offset pos (0-based), k of them
Bytes(pos, k) == [i \in 1..k |-> pos + i]

\* no response body is being read, no item has been taken from it
NoStream == [pos |-> 0, left |-> NoLen]
NoChunk == [ok |-> FALSE, bytes |-> <<>>]

VARIABLES
  pc,              \* position of download_file
  result,          \* "running", or the Result download_file returned
  downloaded, total_size, last_downloaded, speed_samples, error_occurred,
  taken,           \* every instant_speed computed so far, oldest first
  request,         \* Range offset of the GET last issued
  stream,          \* the response body being read: next offset, bytes left
  chunk_result,    \* the item stream.next() returned
  dest,            \* the file at dest_path: does it exist, its bytes
  flushed,         \* file.flush() has returned Ok
  sink,            \* the DownloadState values handed to progress_callback
  pause_flag, cancel_flag,
  head_resp,       \* the HEAD response in flight: <<>> or <<response>>
  attempt,         \* how the latest GET attempt ended, "none" while it runs
  waited,          \* the longest sleep since the last GET was answered, in ms
  send_fails,      \* consecutive failed sends
  disk_fault,      \* the disk operation that failed, if any
  remove_failed,   \* remove_file returned Err (swallowed)
  honest,          \* the server has so far honoured ranges and lengths
  seconds,         \* the argument of format_time_remaining
  time_text,       \* the String it returned, <<>> before the call
  late,            \* chunks written since each flag was last set
  cmd_phase,       \* the command run: "idle", "waiting" for an exit, "finished"
  index,           \* the index execute_commands_sequence was last called with
  commands,        \* the CommandStep list, each step by its CommandType
  has_callback,    \* on_complete is Some
  cancelled,       \* the shared cancelled cell
  current_process, \* the shared process cell: <<>> or <<index of the step>>
  exit_result,     \* RunningCommandContext.exit_result: <<>> or <<result>>
  ACTION_RUNNING,
  task_status,     \* the TaskStatus shown for each step
  title,           \* the step whose friendly_name is the title, if any
  close_enabled,   \* the close button is shown
  completions,     \* the arguments on_complete has been called with
  finalized,       \* the success values finalize_execution was called with
  spawned,         \* the steps a subprocess was started for, in order
  exited,          \* what the wait callbacks reported, in order
  checks           \* the values the cancelled cell had when it was checked

prog_data == <<result, downloaded, total_size, last_downloaded, speed_samples, taken,
               error_occurred, request, stream, chunk_result, dest, flushed, sink>>
prog == <<pc, result, downloaded, total_size, last_downloaded, speed_samples, taken,
          error_occurred, request, stream, chunk_result, dest, flushed, sink>>
flags == <<pause_flag, cancel_flag>>
ghost == <<head_resp, attempt, waited, send_fails, disk_fault,
           remove_failed, honest>>
fmt == <<seconds, time_text>>
NoLate == [pause |-> 0, cancel |-> 0]
exec == <<cmd_phase, index, commands, has_callback, cancelled,
          current_process, exit_result, ACTION_RUNNING, task_status, title,
          close_enabled, completions, finalized, spawned, exited, checks>>
vars == <<prog, flags, ghost, fmt, exec, late>>

\* nothing has been called yet: the caller holds the list, the cancelled
\* cell and the process cell, and has set ACTION_RUNNING
ExecIdle ==
  /\ cmd_phase = "idle"
  /\ index = 0
  /\ cancelled = FALSE
  /\ current_process = <<>>
  /\ exit_result = <<>>
  /\ ACTION_RUNNING = TRUE
  /\ task_status = [i \in 0..(Len(commands) - 1) |-> "Pending"]
  /\ title = <<>>
  /\ close_enabled = FALSE
  /\ completions = <<>>
  /\ finalized = <<>>
  /\ spawned = <<>>
  /\ exited = <<>>
  /\ checks = <<>>

\* download_file has been entered; nothing has been done yet
Entered ==
  /\ pc = "build"
  /\ result = "running"
  /\ downloaded = 0
  /\ total_size = 0
  /\ last_downloaded = 0
  /\ speed_samples = <<>>
  /\ taken = <<>>
  /\ error_occurred = FALSE
  /\ request = NoRequest
  /\ stream = NoStream
  /\ chunk_result = NoChunk
  /\ dest \in {[exists |-> FALSE, data |-> <<>>], [exists |-> TRUE, data |-> <<0>>]}
  /\ flushed = FALSE
  /\ sink = <<>>
  /\ pause_flag = FALSE
  /\ cancel_flag = FALSE
  /\ head_resp = <<>>
  /\ attempt = "none"
  /\ waited = 0
  /\ send_fails = 0
  /\ disk_fault = "none"
  /\ remove_failed = FALSE
  /\ honest = TRUE
  /\ late = NoLate

Init ==
  /\ Entered
  /\ seconds = 0
  /\ time_text = <<>>
  /\ commands = <<>>
  /\ has_callback = FALSE
  /\ ExecIdle

(* ---------------------------------------------------------------------- *)
(* The server: what a HEAD, a GET and a read of the body may return        *)
(* ---------------------------------------------------------------------- *)
\* The server holds one resource of ResourceSize bytes.  A response declares
\* the length of the body it carries, or none (chunked); a non-success
\* response carries an error body of at most ErrorBodyLen bytes.
\* client.head(&url).send(): Err, or a response with a status and a length
HeadResponses ==
  {[err |-> TRUE, status |-> "success", len |-> NoLen]}
    \cup [err : {FALSE}, status : {"success"}, len : {NoLen, ResourceSize}]
    \cup [err : {FALSE}, status : {"other_error"},
          len : {NoLen} \cup 0..ErrorBodyLen]

\* request.send() of a GET at offset off: Err; or a success whose body is the
\* resource from off on (the server serves the range it is asked for); or a
\* non-success status
GetResponses(off) ==
  {[err |-> TRUE, status |-> "success", len |-> NoLen]}
    \cup [err : {FALSE}, status : {"success"} \cap {x \in Statuses : off < ResourceSize},
          len : {NoLen, ResourceSize - off}]
    \cup [err : {FALSE}, status : Statuses \ {"success"},
          len : {NoLen} \cup 0..ErrorBodyLen]

\* a HEAD answer of a well-behaved server: it declares no length but the
\* resource's
HonestHead(r) == r.err \/ r.status = "success" \/ r.len = NoLen

\* a GET answer of a well-behaved server: a range at or past the end, and no
\* other, is refused with 416, and a non-success response declares no length
HonestGet(off, r) ==
  \/ r.err
  \/ r.status = "other_error" /\ r.len = NoLen
  \/ r.status = "success"
  \/ r.status = "range_not_satisfiable" /\ off >= ResourceSize /\ r.len = NoLen

\* the chunk lengths the body may yield next: no more than its declared length
ChunkLens ==
  {k \in 1..MaxChunk :
     /\ stream.pos + k <= ResourceSize
     /\ stream.left # NoLen => k <= stream.left}

(* ---------------------------------------------------------------------- *)
(* Pure parts of download_file                                             *)
(* ---------------------------------------------------------------------- *)
\* total_size after the HEAD probe
TotalAfterHead(r) == IF ~r.err /\ r.len # NoLen THEN r.len ELSE 0

\* the loop is finished: total known and reached
Finished(t, d) == t > 0 /\ d >= t

\* RangeHeader with the resume offset forgotten: every GET asks for the start
RangeHeaderNever(d) == NoRange

\* the Range header of the next GET
RangeHeader(d) == IF d > 0 THEN d ELSE NoRange

\* the offset a request asks for
Offset(req) == IF req = NoRange THEN 0 ELSE req

\* TotalAfterGet taking the total from every response that declares a length
TotalAfterGetAlways(t, d, len) == IF len # NoLen THEN d + len ELSE t

\* total_size after a GET response
TotalAfterGet(t, d, len) == IF t = 0 /\ len # NoLen THEN d + len ELSE t

\* a non-success response ends the loop
DoneOnStatus(status, t, d) ==
  status = "range_not_satisfiable" /\ t > 0 /\ d >= t

\* bytes per second over the elapsed milliseconds
InstantSpeed(bytes, elapsed) == (bytes * 1000) \div elapsed

\* PushSample dropping the newest sample instead of the oldest
PushSampleKeepOldest(samples, s) ==
  LET pushed == Append(samples, s)
  IN  IF Len(pushed) > max_samples THEN samples ELSE pushed

\* speed_samples after a sample is pushed
PushSample(samples, s) ==
  LET pushed == Append(samples, s)
  IN  IF Len(pushed) > max_samples THEN Tail(pushed) ELSE pushed

\* the mean of the window, as a fraction <<sum, count>>
AvgSpeed(samples, instant) ==
  IF samples # <<>> THEN <<SumSeq(samples), Len(samples)>> ELSE <<instant, 1>>

ZeroSpeed == <<0, 1>>

\* ProgressState reporting the bytes since the last update instead of the total
ProgressStateDelta(d, t, samples, instant) ==
  [downloaded |-> d - last_downloaded, total |-> t,
   speed |-> AvgSpeed(samples, instant)]

\* the DownloadState of a progress update
ProgressState(d, t, samples, instant) ==
  [downloaded |-> d, total |-> t, speed |-> AvgSpeed(samples, instant)]

\* FinalState carrying the smoothed speed instead of 0.0
FinalStateSmoothed(d, t) ==
  [downloaded |-> d, total |-> t, speed |-> AvgSpeed(speed_samples, 0)]

\* the DownloadState of the final update
FinalState(d, t) == [downloaded |-> d, total |-> t, speed |-> ZeroSpeed]

\* StreamComplete without the second load of pause_flag
StreamCompleteUnpaused(err, paused, t, d) ==
  ~err /\ (IF t > 0 THEN d >= t ELSE TRUE)

\* after the inner loop: the transfer is complete
StreamComplete(err, paused, t, d) ==
  ~err /\ ~paused /\ (IF t > 0 THEN d >= t ELSE TRUE)

(* ---------------------------------------------------------------------- *)
(* download_file, step by step                                             *)
(* ---------------------------------------------------------------------- *)
\* RemoveDest with the removal left out: the handle is dropped, the file stays
RemoveDestSkipped == dest' = dest /\ remove_failed' = FALSE

\* drop(file); let _ = remove_file(&dest_path): the removal may fail, unseen
RemoveDest ==
  \E removed \in BOOLEAN :
    /\ dest' = IF removed THEN [exists |-> FALSE, data |-> <<>>] ELSE dest
    /\ remove_failed' = ~removed

\* reqwest::Client::builder().build()
Build ==
  /\ pc = "build"
  /\ \/ pc' = "create" /\ UNCHANGED result
     \/ pc' = "done" /\ result' = "client_error"
  /\ UNCHANGED <<downloaded, total_size, last_downloaded, speed_samples, taken,
                 error_occurred, request, stream, chunk_result, dest, flushed,
                 sink, flags, fmt, exec, late, ghost>>

\* File::create(&dest_path): truncates, or fails and returns the error
Create ==
  /\ pc = "create"
  /\ \/ /\ dest' = [exists |-> TRUE, data |-> <<>>]
        /\ pc' = "probe"
        /\ UNCHANGED <<result, disk_fault>>
     \/ /\ disk_fault' = "create"
        /\ result' = "io_error"
        /\ pc' = "done"
        /\ UNCHANGED dest
  /\ UNCHANGED <<downloaded, total_size, last_downloaded, speed_samples, taken,
                 error_occurred, request, stream, chunk_result, flushed, sink,
                 flags, fmt, exec, late, head_resp, attempt, waited, send_fails,
                 remove_failed, honest>>

\* client.head(&url).send().await: the server answers the probe
ProbeSend ==
  /\ pc = "probe"
  /\ \E r \in HeadResponses :
       /\ head_resp' = <<r>>
       /\ honest' = (honest /\ HonestHead(r))
  /\ pc' = "probe_recv"
  /\ UNCHANGED <<prog_data, flags, fmt, exec, late, attempt, waited, send_fails,
                 disk_fault, remove_failed>>

\* if let Ok(resp) = ... { if let Some(len) = resp.content_length() { .. } }
ProbeRecv ==
  /\ pc = "probe_recv"
  /\ total_size' = TotalAfterHead(head_resp[1])
  /\ head_resp' = <<>>
  /\ pc' = "loop_cancel"
  /\ UNCHANGED <<result, downloaded, last_downloaded, speed_samples, taken,
                 error_occurred, request, stream, chunk_result, dest, flushed,
                 sink, flags, fmt, exec, late, attempt, waited, send_fails, disk_fault,
                 remove_failed, honest>>

\* LoopCancel loading pause_flag first: a paused loop sleeps, cancelled or not
LoopCancelAfterPause ==
  /\ pc = "loop_cancel"
  /\ IF pause_flag
       THEN /\ pc' = "sleep_pause"
            /\ UNCHANGED <<dest, remove_failed, result>>
       ELSE IF cancel_flag
              THEN /\ RemoveDest
                   /\ result' = "cancelled"
                   /\ pc' = "done"
              ELSE /\ pc' = "loop_pause"
                   /\ UNCHANGED <<dest, remove_failed, result>>
  /\ UNCHANGED <<downloaded, total_size, last_downloaded, speed_samples,
                 taken, error_occurred, request, stream, chunk_result,
                 flushed, sink, flags, fmt, exec, late, head_resp, attempt, waited,
                 send_fails, disk_fault, honest>>

\* top of the loop: the cancellation check
LoopCancel ==
  /\ pc = "loop_cancel"
  /\ IF cancel_flag
       THEN /\ RemoveDest
            /\ result' = "cancelled"
            /\ pc' = "done"
       ELSE /\ pc' = "loop_pause"
            /\ UNCHANGED <<dest, remove_failed, result>>
  /\ UNCHANGED <<downloaded, total_size, last_downloaded, speed_samples, taken,
                 error_occurred, request, stream, chunk_result, flushed, sink,
                 flags, fmt, exec, late, head_resp, attempt, waited, send_fails,
                 disk_fault, honest>>

\* LoopPause going on to the request although the pause is set
LoopPauseRequests ==
  /\ pc = "loop_pause"
  /\ IF ~pause_flag /\ Finished(total_size, downloaded)
       THEN pc' = "flush" /\ UNCHANGED request
       ELSE pc' = "send" /\ request' = RangeHeader(downloaded)
  /\ UNCHANGED <<result, downloaded, total_size, last_downloaded,
                 speed_samples, taken, error_occurred, stream, chunk_result,
                 dest, flushed, sink, flags, fmt, exec, late, ghost>>

\* top of the loop: the pause check, the finished check, the request
LoopPause ==
  /\ pc = "loop_pause"
  /\ IF pause_flag
       THEN pc' = "sleep_pause" /\ UNCHANGED request
       ELSE IF Finished(total_size, downloaded)
              THEN pc' = "flush" /\ UNCHANGED request
              ELSE pc' = "send" /\ request' = RangeHeader(downloaded)
  /\ UNCHANGED <<result, downloaded, total_size, last_downloaded,
                 speed_samples, taken, error_occurred, stream, chunk_result, dest,
                 flushed, sink, flags, fmt, exec, late, ghost>>

\* sleep(100 ms); continue
SleepPause ==
  /\ pc = "sleep_pause"
  /\ waited' = IF waited < PAUSE_SLEEP_MS THEN PAUSE_SLEEP_MS ELSE waited
  /\ pc' = "loop_cancel"
  /\ UNCHANGED <<result, downloaded, total_size, last_downloaded,
                 speed_samples, taken, error_occurred, request, stream, chunk_result,
                 dest, flushed, sink, flags, fmt, exec, late, head_resp, attempt, send_fails,
                 disk_fault, remove_failed, honest>>

\* SendFailed with a retry ceiling: the second failure in a row is returned
SendFailedCeiling ==
  /\ send_fails < MaxFails
  /\ send_fails' = send_fails + 1
  /\ attempt' = "send_err"
  /\ IF send_fails >= 1
       THEN pc' = "done" /\ result' = "net_error"
       ELSE pc' = "sleep_retry" /\ UNCHANGED result
  /\ UNCHANGED <<total_size, stream, error_occurred>>

\* Err(e) of request.send(): log, sleep 2 s, loop
SendFailed ==
  /\ send_fails < MaxFails
  /\ send_fails' = send_fails + 1
  /\ attempt' = "send_err"
  /\ pc' = "sleep_retry"
  /\ UNCHANGED <<result, total_size, stream, error_occurred>>

\* Ok(response) of request.send(): total_size, the status, the body stream
Received(r) ==
  /\ total_size' = TotalAfterGet(total_size, downloaded, r.len)
  /\ send_fails' = 0
  /\ IF r.status # "success"
       THEN /\ attempt' = r.status
            /\ pc' = IF DoneOnStatus(r.status, total_size', downloaded)
                       THEN "flush" ELSE "sleep_retry"
            /\ UNCHANGED <<stream, error_occurred>>
       ELSE /\ attempt' = "none"
            /\ stream' = [pos |-> Offset(request), left |-> r.len]
            /\ error_occurred' = FALSE
            /\ pc' = "stream_next"
  /\ UNCHANGED result

\* request.send().await and the match on its result, up to the body stream
Send ==
  /\ pc = "send"
  /\ \E r \in GetResponses(Offset(request)) :
       /\ honest' = (honest /\ HonestGet(Offset(request), r))
       /\ IF r.err THEN SendFailed ELSE Received(r)
  /\ waited' = 0
  /\ UNCHANGED <<downloaded, last_downloaded, speed_samples, taken, request,
                 chunk_result, dest, flushed, sink, flags, fmt, exec, late, head_resp,
                 disk_fault, remove_failed>>

\* SleepRetry going back to the size probe before the next request
SleepRetryReprobe ==
  /\ pc = "sleep_retry"
  /\ waited' = IF waited < RETRY_SLEEP_MS THEN RETRY_SLEEP_MS ELSE waited
  /\ pc' = "probe"
  /\ UNCHANGED <<result, downloaded, total_size, last_downloaded,
                 speed_samples, taken, error_occurred, request, stream,
                 chunk_result, dest, flushed, sink, flags, fmt, exec, late,
                 head_resp, attempt, send_fails, disk_fault, remove_failed,
                 honest>>

\* sleep(2 s) after a failed send or a non-success status
SleepRetry ==
  /\ pc = "sleep_retry"
  /\ waited' = IF waited < RETRY_SLEEP_MS THEN RETRY_SLEEP_MS ELSE waited
  /\ pc' = "loop_cancel"
  /\ UNCHANGED <<result, downloaded, total_size, last_downloaded,
                 speed_samples, taken, error_occurred, request, stream, chunk_result,
                 dest, flushed, sink, flags, fmt, exec, late, head_resp, attempt, send_fails,
                 disk_fault, remove_failed, honest>>

\* stream.next().await: a chunk, a read error, or the end of the body (a
\* body of undeclared length may end before the resource does)
StreamNext ==
  /\ pc = "stream_next"
  /\ \/ \E k \in ChunkLens :
          /\ chunk_result' = [ok |-> TRUE, bytes |-> Bytes(stream.pos, k)]
          /\ stream' = [pos |-> stream.pos + k,
                        left |-> IF stream.left = NoLen THEN NoLen
                                 ELSE stream.left - k]
          /\ pc' = "chunk_cancel"
          /\ UNCHANGED <<honest, attempt>>
     \/ /\ chunk_result' = [ok |-> FALSE, bytes |-> <<>>]
        /\ pc' = "chunk_cancel"
        /\ UNCHANGED <<stream, honest, attempt>>
     \/ /\ stream.left \in {NoLen, 0}
        /\ attempt' = "eof"
        /\ honest' = (honest /\ stream.pos = ResourceSize)
        /\ pc' = "after_stream"
        /\ UNCHANGED <<stream, chunk_result>>
  /\ UNCHANGED <<result, downloaded, total_size, last_downloaded,
                 speed_samples, taken, error_occurred, request, dest, flushed, sink,
                 flags, fmt, exec, late, head_resp, waited, send_fails, disk_fault,
                 remove_failed>>

\* ChunkCancel without the load of cancel_flag
ChunkCancelBlind ==
  /\ pc = "chunk_cancel"
  /\ pc' = "chunk_pause"
  /\ UNCHANGED <<dest, remove_failed, result>>
  /\ UNCHANGED <<downloaded, total_size, last_downloaded, speed_samples,
                 taken, error_occurred, request, stream, chunk_result,
                 flushed, sink, flags, fmt, exec, late, head_resp, attempt, waited,
                 send_fails, disk_fault, honest>>

\* inside the stream: the cancellation check
ChunkCancel ==
  /\ pc = "chunk_cancel"
  /\ IF cancel_flag
       THEN /\ RemoveDest
            /\ result' = "cancelled"
            /\ pc' = "done"
       ELSE /\ pc' = "chunk_pause"
            /\ UNCHANGED <<dest, remove_failed, result>>
  /\ UNCHANGED <<downloaded, total_size, last_downloaded, speed_samples, taken,
                 error_occurred, request, stream, chunk_result, flushed, sink,
                 flags, fmt, exec, late, head_resp, attempt, waited, send_fails,
                 disk_fault, honest>>

\* ChunkPause storing false to pause_flag once it has seen the pause
ChunkPauseClears ==
  /\ pc = "chunk_pause"
  /\ IF pause_flag
       THEN pc' = "after_stream" /\ attempt' = "paused"
       ELSE pc' = "process" /\ UNCHANGED attempt
  /\ pause_flag' = FALSE
  /\ UNCHANGED <<result, downloaded, total_size, last_downloaded,
                 speed_samples, taken, error_occurred, request, stream,
                 chunk_result, dest, flushed, sink, cancel_flag, fmt, exec, late,
                 head_resp, waited, send_fails, disk_fault, remove_failed,
                 honest>>

\* inside the stream: the pause check
ChunkPause ==
  /\ pc = "chunk_pause"
  /\ IF pause_flag
       THEN pc' = "after_stream" /\ attempt' = "paused"
       ELSE pc' = "process" /\ UNCHANGED attempt
  /\ UNCHANGED <<result, downloaded, total_size, last_downloaded,
                 speed_samples, taken, error_occurred, request, stream, chunk_result,
                 dest, flushed, sink, flags, fmt, exec, late, head_resp, waited,
                 send_fails, disk_fault, remove_failed, honest>>

\* Progress reporting the count from before the chunk just written
ProgressStale(d, elapsed) ==
  IF elapsed >= SAMPLE_MS
    THEN LET instant == InstantSpeed(d - last_downloaded, elapsed)
             samples == PushSample(speed_samples, instant)
         IN  /\ speed_samples' = samples
             /\ taken' = Append(taken, instant)
             /\ sink' = Append(sink, ProgressState(d - Len(chunk_result.bytes),
                                                   total_size, samples, instant))
             /\ last_downloaded' = d
    ELSE UNCHANGED <<speed_samples, taken, sink, last_downloaded>>

\* the progress update after a chunk has been written, elapsed ms after the last
Progress(d, elapsed) ==
  IF elapsed >= SAMPLE_MS
    THEN LET instant == InstantSpeed(d - last_downloaded, elapsed)
             samples == PushSample(speed_samples, instant)
         IN  /\ speed_samples' = samples
             /\ taken' = Append(taken, instant)
             /\ sink' = Append(sink, ProgressState(d, total_size, samples, instant))
             /\ last_downloaded' = d
    ELSE UNCHANGED <<speed_samples, taken, sink, last_downloaded>>

\* WriteFailed handled like a read error: the loop goes on and requests again
WriteFailedRetried ==
  /\ disk_fault' = "write"
  /\ error_occurred' = TRUE
  /\ attempt' = "read_err"
  /\ pc' = "after_stream"
  /\ UNCHANGED <<result, downloaded, speed_samples, taken, sink, last_downloaded>>

\* file.write_all(&chunk) failed: the error is returned
WriteFailed ==
  /\ disk_fault' = "write"
  /\ result' = "io_error"
  /\ pc' = "done"
  /\ UNCHANGED <<downloaded, speed_samples, taken, sink, last_downloaded,
                 error_occurred, attempt>>

\* late once a chunk has been written: one more for each flag that is set
LateAfterWrite ==
  [pause |-> IF pause_flag THEN late.pause + 1 ELSE 0,
   cancel |-> IF cancel_flag THEN late.cancel + 1 ELSE 0]

\* match chunk_result: write the chunk and report, or note the read error
Process ==
  /\ pc = "process"
  /\ IF chunk_result.ok
       THEN \/ /\ dest' = [dest EXCEPT !.data = @ \o chunk_result.bytes]
               /\ downloaded' = downloaded + Len(chunk_result.bytes)
               /\ \E elapsed \in ElapsedChoices : Progress(downloaded', elapsed)
               /\ late' = LateAfterWrite
               /\ pc' = "stream_next"
               /\ UNCHANGED <<result, error_occurred, attempt, disk_fault>>
            \/ /\ \E j \in 0..(Len(chunk_result.bytes) - 1) :
                    dest' = [dest EXCEPT !.data = @ \o SubSeq(chunk_result.bytes, 1, j)]
               /\ WriteFailed
               /\ UNCHANGED late
       ELSE /\ error_occurred' = TRUE
            /\ attempt' = "read_err"
            /\ pc' = "after_stream"
            /\ UNCHANGED <<result, downloaded, speed_samples, taken, sink,
                           last_downloaded, dest, disk_fault, late>>
  /\ UNCHANGED <<total_size, request, stream, chunk_result, flushed, flags, fmt,
                 exec, head_resp, waited, send_fails, remove_failed, honest>>

\* AfterStream creating the destination file anew before the loop goes round
AfterStreamRecreate ==
  /\ pc = "after_stream"
  /\ pc' = IF StreamComplete(error_occurred, pause_flag, total_size, downloaded)
             THEN "flush" ELSE "loop_cancel"
  /\ dest' = IF pc' = "loop_cancel" THEN [exists |-> TRUE, data |-> <<>>]
             ELSE dest
  /\ stream' = NoStream
  /\ chunk_result' = NoChunk
  /\ error_occurred' = FALSE
  /\ request' = NoRequest
  /\ UNCHANGED <<result, downloaded, total_size, last_downloaded,
                 speed_samples, taken, flushed, sink, flags, fmt, exec, late, ghost>>

\* after the inner loop: complete, or back to the top of the loop; the
\* response, its stream and error_occurred go out of scope
AfterStream ==
  /\ pc = "after_stream"
  /\ pc' = IF StreamComplete(error_occurred, pause_flag, total_size, downloaded)
             THEN "flush" ELSE "loop_cancel"
  /\ stream' = NoStream
  /\ chunk_result' = NoChunk
  /\ error_occurred' = FALSE
  /\ request' = NoRequest
  /\ UNCHANGED <<result, downloaded, total_size, last_downloaded,
                 speed_samples, taken, dest, flushed, sink, flags, fmt, exec, late, ghost>>

\* file.flush().await?
Flush ==
  /\ pc = "flush"
  /\ \/ /\ flushed' = TRUE
        /\ pc' = "final"
        /\ UNCHANGED <<result, disk_fault>>
     \/ /\ disk_fault' = "flush"
        /\ result' = "io_error"
        /\ pc' = "done"
        /\ UNCHANGED flushed
  /\ UNCHANGED <<downloaded, total_size, last_downloaded, speed_samples, taken,
                 error_occurred, request, stream, chunk_result, dest, sink,
                 flags, fmt, exec, late, head_resp, attempt, waited, send_fails,
                 remove_failed, honest>>

\* the final update and Ok(())
FinalUpdate ==
  /\ pc = "final"
  /\ sink' = Append(sink, FinalState(downloaded, total_size))
  /\ result' = "ok"
  /\ pc' = "done"
  /\ UNCHANGED <<downloaded, total_size, last_downloaded, speed_samples, taken,
                 error_occurred, request, stream, chunk_result, dest, flushed,
                 flags, fmt, exec, late, ghost>>

(* ---------------------------------------------------------------------- *)
(* The owner of the flags (the caller's UI thread)                         *)
(* ---------------------------------------------------------------------- *)
SetPause ==
  /\ result = "running"
  /\ pause_flag' = ~pause_flag
  /\ late' = [late EXCEPT !.pause = 0]
  /\ UNCHANGED <<prog, cancel_flag, ghost, fmt, exec>>

SetCancel ==
  /\ result = "running"
  /\ ~cancel_flag
  /\ cancel_flag' = TRUE
  /\ late' = [late EXCEPT !.cancel = 0]
  /\ UNCHANGED <<prog, pause_flag, ghost, fmt, exec>>

Next ==
  \/ Build
  \/ Create
  \/ ProbeSend
  \/ ProbeRecv
  \/ LoopCancel
  \/ LoopPause
  \/ SleepPause
  \/ Send
  \/ SleepRetry
  \/ StreamNext
  \/ ChunkCancel
  \/ ChunkPause
  \/ Process
  \/ AfterStream
  \/ Flush
  \/ FinalUpdate
  \/ SetPause
  \/ SetCancel

Spec == Init /\ [][Next]_vars

(* ---------------------------------------------------------------------- *)
(* The rate window over a long body: the inner loop alone, flags clear     *)
(* ---------------------------------------------------------------------- *)
\* the progress updates of one body
MaxSamples == 22
\* the places where the arrivals depart from one byte every SAMPLE_MS
MaxIrregular == 1

\* the instant_speed of one byte in SAMPLE_MS
Steady == InstantSpeed(1, SAMPLE_MS)

\* bytes in excess of one per sample, plus samples that are not Steady
Irregularity(d, hist) ==
  (d - Len(hist)) + Cardinality({i \in 1..Len(hist) : hist[i] # Steady})

\* a GET from offset 0 has just been answered, success, no Content-Length;
\* the HEAD carried none either
RateInit ==
  /\ pc = "stream_next"
  /\ result = "running"
  /\ downloaded = 0
  /\ total_size = 0
  /\ last_downloaded = 0
  /\ speed_samples = <<>>
  /\ taken = <<>>
  /\ error_occurred = FALSE
  /\ request = NoRange
  /\ stream = [pos |-> 0, left |-> NoLen]
  /\ chunk_result = NoChunk
  /\ dest = [exists |-> TRUE, data |-> <<>>]
  /\ flushed = FALSE
  /\ sink = <<>>
  /\ pause_flag = FALSE
  /\ cancel_flag = FALSE
  /\ head_resp = <<>>
  /\ attempt = "none"
  /\ waited = 0
  /\ send_fails = 0
  /\ disk_fault = "none"
  /\ remove_failed = FALSE
  /\ honest = TRUE
  /\ late = NoLate
  /\ seconds = 0
  /\ time_text = <<>>
  /\ commands = <<>>
  /\ has_callback = FALSE
  /\ ExecIdle

\* stream.next().await returns a chunk, of a resource that does not end
\* within MaxSamples progress updates
RateStreamNext ==
  /\ pc = "stream_next"
  /\ \E k \in 1..MaxChunk :
       /\ chunk_result' = [ok |-> TRUE, bytes |-> Bytes(stream.pos, k)]
       /\ stream' = [stream EXCEPT !.pos = @ + k]
  /\ pc' = "chunk_cancel"
  /\ UNCHANGED <<result, downloaded, total_size, last_downloaded,
                 speed_samples, taken, error_occurred, request, dest, flushed,
                 sink, flags, fmt, exec, late, ghost>>

\* the chunk is written and reported
RateProcess ==
  /\ Process
  /\ pc' = "stream_next"
  /\ Len(taken') <= MaxSamples
  /\ Irregularity(downloaded', taken') <= MaxIrregular

RateNext ==
  \/ RateStreamNext
  \/ ChunkCancel
  \/ ChunkPause
  \/ RateProcess

RateSpec == RateInit /\ [][RateNext]_vars

(* ---------------------------------------------------------------------- *)
(* format_time_remaining: a String is the sequence of its characters       *)
(* ---------------------------------------------------------------------- *)
\* the largest argument tried
MaxSeconds == 3700

DigitChars == <<"0", "1", "2", "3", "4", "5", "6", "7", "8", "9">>

\* "{}" of a u64: its decimal digits, no sign, no padding
RECURSIVE Decimal(_)
Decimal(n) ==
  IF n < 10 THEN <<DigitChars[n + 1]>>
  ELSE Decimal(n \div 10) \o <<DigitChars[(n % 10) + 1]>>

LessThan1s == <<"L", "e", "s", "s", " ", "t", "h", "a", "n", " ", "1", "s">>

\* format_time_remaining with the minutes taken from all of the seconds
format_time_remaining_total_minutes(s) ==
  IF s = 0 THEN LessThan1s
  ELSE LET hours == s \div 3600
           minutes == s \div 60
           secs == s % 60
       IN  IF hours > 0
             THEN Decimal(hours) \o <<"h", " ">> \o Decimal(minutes)
                    \o <<"m", " ">> \o Decimal(secs) \o <<"s">>
             ELSE IF minutes > 0
                    THEN Decimal(minutes) \o <<"m", " ">> \o Decimal(secs)
                           \o <<"s">>
                    ELSE Decimal(secs) \o <<"s">>

format_time_remaining(s) ==
  IF s = 0 THEN LessThan1s
  ELSE LET hours == s \div 3600
           minutes == (s % 3600) \div 60
           secs == s % 60
       IN  IF hours > 0
             THEN Decimal(hours) \o <<"h", " ">> \o Decimal(minutes)
                    \o <<"m", " ">> \o Decimal(secs) \o <<"s">>
             ELSE IF minutes > 0
                    THEN Decimal(minutes) \o <<"m", " ">> \o Decimal(secs)
                           \o <<"s">>
                    ELSE Decimal(secs) \o <<"s">>

\* a caller is about to format some number of seconds
FmtInit ==
  /\ Entered
  /\ seconds \in 0..MaxSeconds
  /\ time_text = <<>>
  /\ commands = <<>>
  /\ has_callback = FALSE
  /\ ExecIdle

\* the call
FormatTime ==
  /\ time_text = <<>>
  /\ time_text' = format_time_remaining(seconds)
  /\ UNCHANGED <<prog, flags, ghost, seconds, late, exec>>

FmtNext == FormatTime

FmtSpec == FmtInit /\ [][FmtNext]_vars

(* ---------------------------------------------------------------------- *)
(* Progress of download_file: the task is polled until it returns          *)
(* ---------------------------------------------------------------------- *)
\* a step of download_file itself
Program ==
  \/ Build
  \/ Create
  \/ ProbeSend
  \/ ProbeRecv
  \/ LoopCancel
  \/ LoopPause
  \/ SleepPause
  \/ Send
  \/ SleepRetry
  \/ StreamNext
  \/ ChunkCancel
  \/ ChunkPause
  \/ Process
  \/ AfterStream
  \/ Flush
  \/ FinalUpdate

\* every await of download_file returns (a response, an error, a timeout,
\* the end of a sleep) and the runtime polls the task again
LiveSpec == Init /\ [][Next]_vars /\ WF_vars(Program)

(* ---------------------------------------------------------------------- *)
(* execute_commands_sequence and RunningCommandContext: a run of commands  *)
(* on the GTK main loop, one callback at a time                            *)
(* ---------------------------------------------------------------------- *)
\* the longest command list tried
MaxCommands == 3

CommandTypes == {"Normal", "Privileged", "Aur"}

\* how wait_async may report the end of a subprocess: Ok and successful, Ok
\* and not successful, Err
WaitResults == {"success", "failure", "wait_error"}

\* the CommandResult the wait callback hands to set_exit_result
CommandResultOf(r) == IF r = "success" THEN "Success" ELSE "Failure"

\* the command lists: every list of at most MaxCommands typed steps
CommandLists ==
  UNION {[1..n -> CommandTypes] : n \in 0..MaxCommands}

\* FinishExecution calling on_complete only when the run succeeded
FinishExecutionSilentOnFailure(success, i, statuses, seen, proc, shown) ==
  /\ ACTION_RUNNING' = FALSE
  /\ close_enabled' = TRUE
  /\ finalized' = Append(finalized, success)
  /\ completions' = IF has_callback /\ success
                      THEN Append(completions, success)
                      ELSE completions
  /\ cmd_phase' = "finished"
  /\ index' = i
  /\ task_status' = statuses
  /\ checks' = seen
  /\ current_process' = proc
  /\ title' = shown
  /\ UNCHANGED spawned

\* finalize_execution(success) followed by the on_complete callback, if any
FinishExecution(success, i, statuses, seen, proc, shown) ==
  /\ ACTION_RUNNING' = FALSE
  /\ close_enabled' = TRUE
  /\ finalized' = Append(finalized, success)
  /\ completions' = IF has_callback THEN Append(completions, success)
                    ELSE completions
  /\ cmd_phase' = "finished"
  /\ index' = i
  /\ task_status' = statuses
  /\ checks' = seen
  /\ current_process' = proc
  /\ title' = shown
  /\ UNCHANGED spawned

\* resolve_command: only an Aur step may fail, for want of a helper
ResolveResults(type) == IF type = "Aur" THEN {TRUE, FALSE} ELSE {TRUE}

\* execute_commands_sequence called with index i, the task statuses, the
\* checks made so far and the content of the process cell
execute_commands_sequence(i, statuses, seen, proc) ==
  LET seen_now == Append(seen, cancelled)
  IN  IF cancelled
        THEN FinishExecution(FALSE, i, statuses, seen_now, proc, title)
        ELSE IF i >= Len(commands)
               THEN FinishExecution(TRUE, i, statuses, seen_now, proc, title)
               ELSE LET running == [statuses EXCEPT ![i] = "Running"]
                    IN  \E resolved \in ResolveResults(commands[i + 1]),
                           started \in BOOLEAN :
                          IF resolved /\ started
                            THEN /\ current_process' = <<i>>
                                 /\ spawned' = Append(spawned, i)
                                 /\ cmd_phase' = "waiting"
                                 /\ index' = i
                                 /\ task_status' = running
                                 /\ title' = <<i>>
                                 /\ checks' = seen_now
                                 /\ UNCHANGED <<ACTION_RUNNING, close_enabled,
                                                finalized, completions>>
                            ELSE FinishExecution(FALSE, i, running, seen_now,
                                                 proc, <<i>>)

\* the caller starts the run: execute_commands_sequence(.., 0, ..)
StartSequence ==
  /\ cmd_phase = "idle"
  /\ execute_commands_sequence(0, task_status, checks, current_process)
  /\ UNCHANGED <<commands, has_callback, cancelled, exit_result, exited>>
  /\ UNCHANGED <<prog, flags, ghost, fmt, late>>

\* try_finalize going on to the next command whatever the exit was
try_finalize_any_exit(exit) ==
  LET seen_now == Append(checks, cancelled)
  IN  /\ exit_result' = <<>>
      /\ IF cancelled
           THEN FinishExecution(FALSE, index, task_status, seen_now, <<>>,
                                title)
           ELSE execute_commands_sequence(
                  index + 1, [task_status EXCEPT ![index] = "Success"],
                  seen_now, <<>>)

\* try_finalize, entered from set_exit_result with the CommandResult: the
\* result is taken, the process cell cleared, the cancelled cell checked,
\* and the next step started or the run finished
try_finalize(exit) ==
  LET seen_now == Append(checks, cancelled)
  IN  /\ exit_result' = <<>>
      /\ IF cancelled
           THEN FinishExecution(FALSE, index, task_status, seen_now, <<>>,
                                title)
           ELSE IF exit = "Success"
                  THEN execute_commands_sequence(
                         index + 1, [task_status EXCEPT ![index] = "Success"],
                         seen_now, <<>>)
                  ELSE FinishExecution(
                         FALSE, index,
                         [task_status EXCEPT ![index] = "Failed"], seen_now,
                         <<>>, title)

\* the wait_async callback of the running subprocess fires
WaitCallback ==
  /\ cmd_phase = "waiting"
  /\ \E r \in WaitResults :
       /\ exited' = Append(exited, r)
       /\ try_finalize(CommandResultOf(r))
  /\ UNCHANGED <<commands, has_callback, cancelled>>
  /\ UNCHANGED <<prog, flags, ghost, fmt, late>>

\* the holder of the cancelled cell writes it, between two callbacks
SetCancelled ==
  /\ cmd_phase \in {"idle", "waiting"}
  /\ cancelled' = ~cancelled
  /\ UNCHANGED <<cmd_phase, index, commands, has_callback, current_process,
                 exit_result, ACTION_RUNNING, task_status, title,
                 close_enabled, completions, finalized, spawned, exited,
                 checks>>
  /\ UNCHANGED <<prog, flags, ghost, fmt, late>>

\* a caller is about to run some command list, with or without on_complete
CmdInit ==
  /\ Entered
  /\ seconds = 0
  /\ time_text = <<>>
  /\ commands \in CommandLists
  /\ has_callback \in BOOLEAN
  /\ ExecIdle

CmdNext ==
  \/ StartSequence
  \/ WaitCallback
  \/ SetCancelled

CmdSpec == CmdInit /\ [][CmdNext]_vars

(* ---------------------------------------------------------------------- *)
(* Properties                                                              *)
(* ---------------------------------------------------------------------- *)
\* the step download_file takes when it loads cancel_flag and finds it set
CancelObserved ==
  pc \in {"loop_cancel", "chunk_cancel"} /\ cancel_flag /\ pc' # pc

\* a snapshot with speed 0
IsZeroSpeed(st) == st.speed[1] = 0

\* C1 as stated: at either checkpoint, an observed cancel ends download_file
\* with the "Download cancelled" error and the destination file is gone.
C1_CancelDeletesFile ==
  [][CancelObserved =>
       pc' = "done" /\ result' = "cancelled" /\ ~dest'.exists]_vars

\* C1 amended: at either checkpoint, whatever downloaded, total_size and
\* pause_flag are, an observed cancel ends download_file with the "Download
\* cancelled" error (never Ok, never a disk error); the removal of the
\* destination file is attempted, and the file is gone afterwards unless
\* that removal itself failed (the failure is swallowed).
C1_CancelCleanup ==
  [][CancelObserved =>
       /\ pc' = "done"
       /\ result' = "cancelled"
       /\ dest'.exists <=> remove_failed'
       /\ dest'.exists => dest' = dest]_vars

\* cancelled inside the stream, paused, with bytes written and total known
C1_Witness ==
  /\ result = "cancelled"
  /\ chunk_result.ok
  /\ pause_flag
  /\ downloaded > 0
  /\ total_size > 0
  /\ ~dest.exists

\* C2: every GET in flight asks for the offset equal to downloaded (a Range
\* header bytes=N- when N > 0, none when N = 0), and the destination file
\* then holds exactly downloaded bytes; so it is for the GET that follows a
\* mid-stream read error after N bytes.
C2_ResumeOffset ==
  /\ pc = "send" =>
       /\ downloaded > 0 => request = downloaded
       /\ downloaded = 0 => request = NoRange
       /\ dest.exists
       /\ Len(dest.data) = downloaded
  /\ attempt = "read_err" /\ result = "running" =>
       dest.exists /\ Len(dest.data) = downloaded

\* a GET re-issued at offset 2 after a read error, two bytes on disk
C2_Witness ==
  /\ pc = "send"
  /\ attempt = "read_err"
  /\ ~pause_flag /\ ~cancel_flag
  /\ downloaded = 2
  /\ request = 2
  /\ dest.data = Bytes(0, 2)

\* C3: with a well-behaved server, whatever the pause toggles, the bytes in
\* the destination file at successful completion are those of a run with no
\* pause at all, which are the whole resource.
C3_PauseIdempotent ==
  honest /\ result = "ok" => dest.data = Bytes(0, ResourceSize)

\* C4: downloaded never decreases along the snapshots handed to the sink.
C4_Monotonic ==
  \A i \in 1..(Len(sink) - 1) : sink[i].downloaded <= sink[i + 1].downloaded

\* a snapshot from before and a snapshot from after the GET resumed at offset 1
C4_Witness ==
  /\ pc = "stream_next"
  /\ request = 1
  /\ Len(sink) = 2
  /\ sink[1].downloaded = 1
  /\ sink[2].downloaded > 1

\* C5: in every snapshot with total > 0, downloaded <= total.
C5_BoundByTotal ==
  \A i \in 1..Len(sink) :
    sink[i].total > 0 => sink[i].downloaded <= sink[i].total

\* C6: when total_size is still 0 and the body ends without error, the loop
\* is left for the completion path, and a success with total 0 ends with the
\* snapshot (downloaded, 0, speed 0).
C6_UnknownSizeCompletes ==
  /\ [][pc = "after_stream" /\ attempt = "eof" /\ total_size = 0 /\ pc' # pc
          => pc' = "flush"]_vars
  /\ [](result = "ok" /\ total_size = 0 =>
          sink[Len(sink)] = [downloaded |-> downloaded, total |-> 0,
                             speed |-> ZeroSpeed])

\* C7: a success has emitted exactly one snapshot with speed 0, the last one,
\* carrying the final downloaded and total, after the flush; no other
\* outcome, and no run still under way, has emitted a snapshot with speed 0.
C7_FinalSnapshot ==
  /\ result = "ok" =>
       /\ flushed
       /\ sink # <<>>
       /\ sink[Len(sink)] = [downloaded |-> downloaded, total |-> total_size,
                             speed |-> ZeroSpeed]
       /\ Cardinality({i \in 1..Len(sink) : IsZeroSpeed(sink[i])}) = 1
  /\ result # "ok" => \A i \in 1..Len(sink) : ~IsZeroSpeed(sink[i])

\* a success whose smoothed speed is not 0
C7_Witness ==
  /\ result = "ok"
  /\ Len(sink) >= 2
  /\ speed_samples # <<>>
  /\ SumSeq(speed_samples) > 0

\* C8: a failed send is never returned: the loop sleeps 2 s, whatever the
\* number of failures before it, and asks again for the same offset; with
\* the latest send failed, the only way download_file has ended is cancelled.
C8_UnboundedRetry ==
  /\ [][pc = "send" /\ attempt' = "send_err" /\ pc' # pc =>
          /\ pc' = "sleep_retry"
          /\ result' = "running"
          /\ UNCHANGED <<downloaded, total_size, request, dest>>]_vars
  /\ [][pc = "sleep_retry" /\ pc' # pc =>
          pc' = "loop_cancel" /\ waited' = RETRY_SLEEP_MS]_vars
  /\ [][attempt = "send_err" /\ pc' = "send" /\ pc # "send" =>
          request' = request /\ waited = RETRY_SLEEP_MS]_vars
  /\ [](attempt = "send_err" /\ pc = "done" => result = "cancelled")

\* the GET re-issued after MaxFails failed sends in a row, at offset 1
C8_Witness ==
  /\ pc = "send"
  /\ attempt = "send_err"
  /\ send_fails = MaxFails
  /\ waited = RETRY_SLEEP_MS
  /\ request = 1

\* C9: a failed create, write_all or flush ends download_file at once with
\* the disk error, not the cancellation; nothing is retried, nothing more is
\* asked of the server and no snapshot with speed 0 is emitted.
C9_DiskFailureFatal ==
  /\ [](disk_fault # "none" =>
          /\ pc = "done"
          /\ result = "io_error"
          /\ \A i \in 1..Len(sink) : ~IsZeroSpeed(sink[i]))
  /\ [][disk_fault # "none" => UNCHANGED <<prog, ghost>>]_vars

\* a write that failed after bytes had been written and reported
C9_Witness ==
  /\ disk_fault = "write"
  /\ result = "io_error"
  /\ downloaded > 0
  /\ sink # <<>>

\* the probe failed: no response, or a response with a non-success status
ProbeFailed == head_resp[1].err \/ head_resp[1].status # "success"

\* C10: a failed HEAD probe does not fail download_file and leaves
\* total_size at 0, to be learned from a GET response.
C10_ProbeFailureAbsorbed ==
  [][pc = "probe_recv" /\ pc' # pc /\ ProbeFailed =>
       pc' = "loop_cancel" /\ result' = "running" /\ total_size' = 0]_vars

\* s is a prefix of t
IsPrefix(s, t) == Len(s) <= Len(t) /\ SubSeq(t, 1, Len(s)) = s

\* C11: once created, the destination file is removed only by the step that
\* observes the cancellation; every other step (a retry after a failed send,
\* a non-success status, a read error or a pause, the flush, a failed write)
\* leaves the file in place and its bytes a prefix of what it holds
\* afterwards; a success and a disk error after the create end with the
\* file on disk.
C11_FileRetention ==
  /\ [][pc \notin {"build", "create"} /\ ~CancelObserved =>
          dest.exists /\ dest'.exists /\ IsPrefix(dest.data, dest'.data)]_vars
  /\ [](result = "ok" \/ disk_fault \in {"write", "flush"} =>
          dest.exists /\ Len(dest.data) >= downloaded)

\* a GET re-issued after a non-success status, the two bytes written before
\* it still in the file
C11_Witness ==
  /\ pc = "send"
  /\ attempt = "other_error"
  /\ waited = RETRY_SLEEP_MS
  /\ downloaded = 2
  /\ dest.exists
  /\ dest.data = Bytes(0, 2)

\* the last n entries of s, all of s when it has fewer
LastN(s, n) == IF Len(s) <= n THEN s ELSE SubSeq(s, Len(s) - n + 1, Len(s))

\* the mean of s, as a fraction <<sum, count>>
Mean(s) == <<SumSeq(s), Len(s)>>

\* C12: speed_samples never holds more than 20 entries and is always the
\* most recent samples in the order they were taken (the oldest leaves
\* first); the speed of the i-th progress snapshot is the mean of the last
\* 20 samples up to and including the i-th, so of exactly 20 once more
\* than 20 have been taken.
C12_RateWindow ==
  /\ Len(speed_samples) <= max_samples
  /\ speed_samples = LastN(taken, max_samples)
  /\ \A i \in 1..Len(taken) :
       /\ i <= Len(sink)
       /\ sink[i].speed = Mean(LastN(SubSeq(taken, 1, i), max_samples))
       /\ i > max_samples => sink[i].speed[2] = max_samples

\* 22 samples taken; the first, which was slower than the rest, has left
\* the window and the mean reported last is that of the 20 steady ones
C12_Witness ==
  /\ Len(taken) = max_samples + 2
  /\ taken[1] # Steady
  /\ Len(speed_samples) = max_samples
  /\ sink[Len(sink)].speed = <<max_samples * Steady, max_samples>>
  /\ sink[max_samples].speed # sink[Len(sink)].speed

\* the fields of a text: the number before each letter, with the letter
RECURSIVE Fields(_, _, _, _)
Fields(text, i, n, out) ==
  IF i > Len(text) THEN out
  ELSE IF \E d \in 1..10 : DigitChars[d] = text[i]
         THEN Fields(text, i + 1,
                     10 * n + (CHOOSE d \in 0..9 : DigitChars[d + 1] = text[i]),
                     out)
         ELSE IF text[i] = " "
                THEN Fields(text, i + 1, 0, out)
                ELSE Fields(text, i + 1, 0, Append(out, <<n, text[i]>>))

\* the number of decimal digits of n < 10000
Width(n) == IF n < 10 THEN 1 ELSE IF n < 100 THEN 2 ELSE IF n < 1000 THEN 3 ELSE 4

\* C13: format_time_remaining(0) is "Less than 1s"; for s > 0, with
\* h = s div 3600, m = (s mod 3600) div 60 and z = s mod 60, the text reads
\* "Hh Mm Zs" when h > 0, "Mm Zs" when h = 0 and m > 0, and "Zs" otherwise,
\* each number in plain decimal and the parts one space apart; 65 gives
\* "1m 5s" and 3661 gives "1h 1m 1s".
C13_FormatTime ==
  time_text # <<>> =>
    LET h == seconds \div 3600
        m == (seconds % 3600) \div 60
        z == seconds % 60
        got == Fields(time_text, 1, 0, <<>>)
    IN  /\ seconds = 0 => time_text = LessThan1s
        /\ seconds > 0 /\ h > 0 =>
             /\ got = <<<<h, "h">>, <<m, "m">>, <<z, "s">>>>
             /\ Len(time_text) = Width(h) + Width(m) + Width(z) + 5
        /\ seconds > 0 /\ h = 0 /\ m > 0 =>
             /\ got = <<<<m, "m">>, <<z, "s">>>>
             /\ Len(time_text) = Width(m) + Width(z) + 3
        /\ seconds > 0 /\ h = 0 /\ m = 0 =>
             /\ got = <<<<z, "s">>>>
             /\ Len(time_text) = Width(z) + 1
        /\ seconds = 65 => time_text = <<"1", "m", " ", "5", "s">>
        /\ seconds = 3661 =>
             time_text = <<"1", "h", " ", "1", "m", " ", "1", "s">>

\* 3661 seconds formatted, all three parts present
C13_Witness ==
  /\ seconds = 3661
  /\ time_text = <<"1", "h", " ", "1", "m", " ", "1", "s">>

\* C14: a GET issued after a failed send, a non-success status or a read
\* error in the body comes after a sleep of 2 s.
C14_RetryDelay ==
  pc = "send" /\ attempt \in {"send_err", "read_err"} \cup (Statuses \ {"success"}) =>
    waited >= RETRY_SLEEP_MS

\* C15: download_file has returned Ok only with total_size > 0 and
\* downloaded >= total_size, or with total_size = 0 after the last body
\* ended without error (and the pause was clear); a body that ends with
\* total_size > 0 and downloaded < total_size sends the loop round again.
C15_CompletionCondition ==
  /\ [](result = "ok" =>
          \/ total_size > 0 /\ downloaded >= total_size
          \/ total_size = 0 /\ attempt = "eof")
  /\ [][/\ pc = "after_stream" /\ pc' # pc
        /\ attempt = "eof" /\ total_size > 0 /\ downloaded < total_size
        => pc' = "loop_cancel" /\ result' = "running"]_vars

\* the statuses that are not a success
NonSuccess == Statuses \ {"success"}

\* C16: when a GET is answered with a non-success status, a 416 with
\* total_size > 0 and downloaded >= total_size leaves the loop for the
\* completion path; every other case sleeps 2 s and, the flags clear, issues
\* the next GET; downloaded and the file stay as they were and
\* download_file does not return a failure.
C16_NonSuccessStatus ==
  /\ [][pc = "send" /\ pc' # pc /\ attempt' \in NonSuccess =>
          /\ pc' = IF /\ attempt' = "range_not_satisfiable"
                      /\ total_size' > 0
                      /\ downloaded >= total_size'
                     THEN "flush" ELSE "sleep_retry"
          /\ result' = "running"
          /\ UNCHANGED <<downloaded, dest>>]_vars
  /\ [][pc = "sleep_retry" /\ attempt \in NonSuccess /\ pc' # pc =>
          /\ pc' = "loop_cancel"
          /\ waited' = RETRY_SLEEP_MS
          /\ UNCHANGED <<downloaded, dest, result>>]_vars
  /\ [][/\ pc = "loop_pause" /\ pc' # pc
        /\ attempt \in NonSuccess /\ ~pause_flag
        => /\ pc' = "send"
           /\ request' = RangeHeader(downloaded)
           /\ UNCHANGED <<downloaded, dest, result>>]_vars

\* C17: a 416 received while total_size is 0 never completes the transfer:
\* the loop sleeps 2 s and, the flags clear, issues the same request again;
\* download_file is still running.
C17_RangeStarvation ==
  /\ [][/\ pc = "send" /\ pc' # pc
        /\ total_size = 0 /\ attempt' = "range_not_satisfiable"
        => pc' = "sleep_retry" /\ result' = "running"]_vars
  /\ [][/\ pc = "loop_pause" /\ pc' # pc
        /\ attempt = "range_not_satisfiable" /\ ~pause_flag
        => /\ pc' = "send"
           /\ request' = request
           /\ waited >= RETRY_SLEEP_MS
           /\ result' = "running"]_vars

\* what the pause wait must leave alone: the counters, the rate window, the
\* file, the snapshots handed out, the request last issued, the outcome
PauseFrame ==
  <<downloaded, total_size, last_downloaded, speed_samples, dest, sink,
    request, stream, result, attempt, send_fails>>

\* C18: at the pause check before the request, with the pause set, the loop
\* goes to the 100 ms sleep and from there back to the cancellation check,
\* issuing no request, handing out no snapshot and leaving downloaded,
\* total_size, the rate window and the file as they were; it goes on to the
\* finished check and the request only with the pause clear, and ends from
\* the wait only on a cancellation.
C18_PauseWait ==
  /\ [][pc = "loop_pause" /\ pause_flag /\ pc' # pc =>
          pc' = "sleep_pause" /\ UNCHANGED PauseFrame]_vars
  /\ [][pc = "sleep_pause" /\ pc' # pc =>
          /\ pc' = "loop_cancel"
          /\ waited' >= PAUSE_SLEEP_MS
          /\ UNCHANGED PauseFrame]_vars
  /\ [][pc = "loop_cancel" /\ pc' # pc =>
          /\ pc' = IF cancel_flag THEN "done" ELSE "loop_pause"
          /\ ~cancel_flag => UNCHANGED PauseFrame]_vars
  /\ [][pc = "loop_pause" /\ pc' \in {"send", "flush"} => ~pause_flag]_vars

\* back at the pause check after a sleep, still paused, one byte written
C18_Witness ==
  /\ pc = "loop_pause"
  /\ pause_flag
  /\ ~cancel_flag
  /\ waited = PAUSE_SLEEP_MS
  /\ downloaded = 1
  /\ dest.data = Bytes(0, 1)

\* C19: when the pause is seen before a received chunk is processed, the
\* chunk is not written and downloaded stays; the response and its chunk
\* are dropped; with the pause still set after the inner loop the transfer
\* is not completed and the loop goes back to its top, where it sleeps at
\* the pause check as long as the pause is set; nothing is written until
\* the next GET, which is issued with the pause clear and asks for the
\* range from downloaded.
C19_MidStreamPause ==
  /\ [][pc = "chunk_pause" /\ pause_flag /\ pc' # pc =>
          /\ pc' = "after_stream"
          /\ attempt' = "paused"
          /\ UNCHANGED <<downloaded, dest, sink>>]_vars
  /\ [][pc = "after_stream" /\ attempt = "paused" /\ pc' # pc =>
          /\ stream' = NoStream
          /\ chunk_result' = NoChunk
          /\ pause_flag => pc' = "loop_cancel" /\ result' = "running"]_vars
  /\ [][attempt = "paused" /\ pc = "loop_pause" /\ pause_flag /\ pc' # pc =>
          pc' = "sleep_pause"]_vars
  /\ [][attempt = "paused" /\ ~CancelObserved =>
          UNCHANGED <<downloaded, dest>>]_vars
  /\ [][attempt = "paused" /\ pc = "loop_pause" /\ pc' = "send" =>
          /\ ~pause_flag
          /\ request' = RangeHeader(downloaded)
          /\ Len(dest.data) = downloaded]_vars

\* the GET issued after a pause seen mid-stream and an idle wait: it asks
\* for the range from the one byte written before the pause
C19_Witness ==
  /\ pc = "send"
  /\ attempt = "paused"
  /\ waited = PAUSE_SLEEP_MS
  /\ ~pause_flag
  /\ downloaded = 1
  /\ request = 1
  /\ dest.data = Bytes(0, 1)

\* C20: with the pause flag set since some moment, or the cancel flag set,
\* no more than one chunk has been written to the file since that moment.
C20_SignalLatency == late.pause <= 1 /\ late.cancel <= 1

\* cancelled one chunk after the cancel flag was set, and paused before that
\* chunk too
C20_Witness ==
  /\ result = "cancelled"
  /\ late.cancel = 1
  /\ late.pause = 1
  /\ downloaded > 0

\* C21: a chunk is appended whole, after the bytes written before it, and
\* whenever a snapshot is handed out, last of the progress updates or final,
\* its downloaded is the number of bytes the file then holds, which are the
\* bytes of the resource in order.
C21_SnapshotDiskConsistency ==
  /\ [][pc = "process" /\ downloaded' # downloaded =>
          /\ dest'.data = dest.data \o chunk_result.bytes
          /\ downloaded' = downloaded + Len(chunk_result.bytes)]_vars
  /\ [][sink' # sink =>
          /\ Len(sink') = Len(sink) + 1
          /\ dest'.exists
          /\ sink'[Len(sink')].downloaded = Len(dest'.data)
          /\ dest'.data = Bytes(0, Len(dest'.data))]_vars

\* three snapshots: after one byte, after all three (a resumed GET in
\* between), and the final one
C21_Witness ==
  /\ result = "ok"
  /\ Len(sink) = 3
  /\ sink[1].downloaded = 1
  /\ sink[2].downloaded = 3
  /\ attempt = "eof"
  /\ dest.data = Bytes(0, 3)

\* C22: no step of download_file changes pause_flag or cancel_flag, on any
\* path, the cancellation cleanup and the completion included; the flags
\* change only in the steps of their owner.
C22_FlagsReadOnly ==
  /\ [][pc' # pc => UNCHANGED <<pause_flag, cancel_flag>>]_vars
  /\ [][<<pause_flag, cancel_flag>>' # <<pause_flag, cancel_flag>> =>
          UNCHANGED prog]_vars

\* download_file has returned Ok with both flags still set
C22_Witness ==
  /\ result = "ok"
  /\ pause_flag
  /\ cancel_flag
  /\ downloaded = ResourceSize

\* the positions before the request loop, in the order they are passed
Entry == <<"build", "create", "probe", "probe_recv">>

\* the place of position p in Entry, Len(Entry) + 1 for every later one
EntryRank(p) ==
  IF \E i \in 1..Len(Entry) : Entry[i] = p
    THEN CHOOSE i \in 1..Len(Entry) : Entry[i] = p
    ELSE Len(Entry) + 1

\* C23: the probe is sent from the position reached by creating (and
\* truncating) the file, and only from there; the loop is entered from the
\* answer of the probe, and only from there; once past a position of the
\* entry, download_file never comes back to it, so the probe is sent once;
\* a GET is sent only inside the loop; when the create has failed, nothing
\* has been asked of the server.
C23_EntryOrdering ==
  /\ [][pc' # pc /\ pc' = "probe" =>
          pc = "create" /\ dest' = [exists |-> TRUE, data |-> <<>>]]_vars
  /\ [][pc' # pc /\ pc' = "probe_recv" =>
          pc = "probe" /\ head_resp = <<>> /\ Len(head_resp') = 1]_vars
  /\ [][pc' # pc /\ EntryRank(pc) <= Len(Entry) /\ pc' # "done" =>
          EntryRank(pc') = EntryRank(pc) + 1]_vars
  /\ [][pc' # pc => EntryRank(pc') >= EntryRank(pc)]_vars
  /\ [](EntryRank(pc) <= Len(Entry) =>
          request = NoRequest /\ attempt = "none" /\ downloaded = 0)
  /\ [](disk_fault = "create" =>
          /\ pc = "done"
          /\ head_resp = <<>> /\ honest
          /\ request = NoRequest /\ attempt = "none")

\* a GET re-issued after a read error, the total still the one the probe
\* gave
C23_Witness ==
  /\ pc = "send"
  /\ attempt = "read_err"
  /\ total_size = ResourceSize
  /\ downloaded = 1
  /\ head_resp = <<>>

\* C24: a GET answered with a non-success status leaves total_size as it
\* was, whatever length the response declares.
C24_TotalFromDataOnly ==
  [][pc = "send" /\ pc' # pc /\ attempt' \in NonSuccess =>
       total_size' = total_size]_vars

\* C25: against a server that serves the ranges it is asked for, declares
\* no wrong length and ends no body early, download_file has returned Ok
\* only with all ResourceSize bytes counted and in the file.
C25_SuccessImpliesComplete ==
  honest /\ result = "ok" =>
    /\ dest.exists
    /\ downloaded = ResourceSize
    /\ Len(dest.data) = ResourceSize

\* C26: total_size, once it is not 0, keeps its value in every later step;
\* of two snapshots, if the earlier carries a total that is not 0 the later
\* carries the same total.
C26_TotalWriteOnce ==
  /\ [][total_size # 0 => total_size' = total_size]_vars
  /\ [](\A i, j \in 1..Len(sink) :
          i < j /\ sink[i].total # 0 => sink[j].total = sink[i].total)

\* a resumed GET whose response declares the 2 bytes that remain: the total
\* is still the 3 learned from the first response, as in the snapshot taken
\* before the resume
C26_Witness ==
  /\ pc = "stream_next"
  /\ request = 1
  /\ stream.left = 2
  /\ total_size = ResourceSize
  /\ sink # <<>>
  /\ sink[1].total = ResourceSize

\* the pause is tested only after the cancellation was tested and found
\* clear, and the pause wait leads back to the cancellation test
CancelTestedFirst ==
  /\ [][pc' # pc /\ pc' = "loop_pause" =>
          pc = "loop_cancel" /\ ~cancel_flag]_vars
  /\ [][pc' # pc /\ pc' = "chunk_pause" =>
          pc = "chunk_cancel" /\ ~cancel_flag]_vars
  /\ [][pc' # pc /\ pc = "sleep_pause" => pc' = "loop_cancel"]_vars

\* C27 as stated: at both checkpoints the cancellation is tested before the
\* pause; with both flags set the step at the cancellation test ends
\* download_file with "Download cancelled" and the file is gone.
C27_CancelBeforePause ==
  /\ CancelTestedFirst
  /\ [][CancelObserved /\ pause_flag =>
          pc' = "done" /\ result' = "cancelled" /\ ~dest'.exists]_vars

\* C27 amended: at both checkpoints the cancellation is tested before the
\* pause; with both flags set the step at the cancellation test ends
\* download_file with "Download cancelled", not with another turn of the
\* pause wait; the removal of the file is attempted and the file is gone
\* unless that removal failed.
C27_CancelBeforePauseCleanup ==
  /\ CancelTestedFirst
  /\ [][CancelObserved /\ pause_flag =>
          /\ pc' = "done"
          /\ result' = "cancelled"
          /\ dest'.exists <=> remove_failed']_vars

\* cancelled out of the pause wait that followed a pause seen mid-stream
C27_Witness ==
  /\ result = "cancelled"
  /\ pause_flag
  /\ attempt = "paused"
  /\ waited = PAUSE_SLEEP_MS
  /\ downloaded > 0
  /\ ~dest.exists

\* a step in which the server answers as it should: a GET gets the range it
\* asked for, or a 416 that declares no length when the range starts at the
\* end of the resource; a body yields its chunks and ends at the end of the
\* resource
GoodServer ==
  /\ pc = "send" /\ pc' # pc =>
       \/ attempt' = "none"
       \/ /\ attempt' = "range_not_satisfiable"
          /\ Offset(request) >= ResourceSize
          /\ total_size' = total_size
  /\ pc = "stream_next" /\ pc' # pc =>
       \/ chunk_result'.ok
       \/ pc' = "after_stream" /\ stream.pos = ResourceSize

\* C28: if the cancel flag is never set, no disk operation fails, the pause
\* flag is clear from some moment on and the server answers as it should
\* from some moment on, download_file eventually returns Ok.
C28_EventualCompletion ==
  /\ [](~cancel_flag /\ result \in {"running", "ok"})
  /\ <>[](~pause_flag)
  /\ <>[][GoodServer]_vars
  => <>(result = "ok")


\* the subprocesses started and not yet reported as ended
RunningProcesses == Len(spawned) - Len(exited)

\* the cancelled cell was checked in this step, and was clear each time
ChecksClearInStep ==
  /\ Len(checks') > Len(checks)
  /\ \A k \in (Len(checks) + 1)..Len(checks') : ~checks'[k]

\* a failure or a cancellation has been seen by the run
RunBroken ==
  \/ \E k \in 1..Len(exited) : exited[k] # "success"
  \/ \E k \in 1..Len(checks) : checks[k]
  \/ finalized # <<>>

\* C29: commands are spawned in index order 0, 1, 2, ... with at most one
\* subprocess running, and one is running exactly while the run waits; a
\* command after the first is spawned only in the step that saw the command
\* before it exit successfully and found the cancelled cell clear at every
\* check of that step; once a command has failed, a cancellation has been
\* seen or the run has been finalized, no command is spawned any more
C29_SequenceOrdering ==
  /\ [](/\ \A k \in 1..Len(spawned) : spawned[k] = k - 1
        /\ Len(spawned) <= Len(commands)
        /\ RunningProcesses \in {0, 1}
        /\ RunningProcesses = 1 <=> cmd_phase = "waiting"
        /\ current_process # <<>> => /\ cmd_phase = "waiting"
                                     /\ current_process = <<Len(spawned) - 1>>
        /\ \A k \in 1..(Len(spawned) - 1) : exited[k] = "success")
  /\ [][spawned' # spawned =>
          /\ Len(spawned') = Len(spawned) + 1
          /\ RunningProcesses = IF spawned = <<>> THEN 0 ELSE 1
          /\ ChecksClearInStep
          /\ spawned # <<>> =>
               /\ Len(exited') = Len(spawned)
               /\ exited'[Len(spawned)] = "success"]_vars
  /\ [][RunBroken => spawned' = spawned]_vars

\* the second command was started after the first succeeded, failed, and
\* the run ended with commands left unstarted
C29_Witness ==
  /\ cmd_phase = "finished"
  /\ Len(spawned) = 2
  /\ Len(commands) > 2
  /\ exited = <<"success", "failure">>

\* what on_complete is owed at the end of the run: every command exited
\* successfully and the cancelled cell was clear at every check
AllSucceeded ==
  /\ Len(exited) = Len(commands)
  /\ \A k \in 1..Len(exited) : exited[k] = "success"
  /\ \A k \in 1..Len(checks) : ~checks[k]

\* C30: a run all of whose wait callbacks have fired has called
\* finalize_execution once and on_complete, when supplied, exactly once,
\* with true if and only if every command exited successfully and the
\* cancelled cell was clear at every check; before the end neither has been
\* called; the step that calls them sets ACTION_RUNNING to false
C30_CompletionCallback ==
  /\ [](/\ cmd_phase = "finished" =>
             /\ Len(finalized) = 1
             /\ finalized[1] = AllSucceeded
             /\ completions = IF has_callback THEN <<AllSucceeded>> ELSE <<>>
             /\ ~ACTION_RUNNING
        /\ cmd_phase # "finished" => finalized = <<>> /\ completions = <<>>)
  /\ [][completions' # completions \/ finalized' # finalized =>
          /\ cmd_phase # "finished"
          /\ cmd_phase' = "finished"
          /\ ACTION_RUNNING' = FALSE]_vars

\* a run of several commands ended with on_complete(true)
C30_Witness ==
  /\ cmd_phase = "finished"
  /\ has_callback
  /\ Len(commands) >= 2
  /\ Len(exited) = Len(commands)
  /\ completions = <<TRUE>>
  /\ ~ACTION_RUNNING

====
